---- MODULE Spec2Model ----
(***************************************************************************)
(* Response parsing and issue filing of the repository-triage agents.     *)
(*                                                                         *)
(* Text is a sequence of one-character strings.  A Python value is a      *)
(* record [t, v]: t is the Python type, v its content.  A dict is the     *)
(* insertion-ordered sequence of its <<key, value>> pairs.                *)
(***************************************************************************)
EXTENDS Integers, Sequences, FiniteSets, TLC

\* ------------------------------------------------------------------ bounds
MaxKeys == 2
MaxLines == 3
MaxSuggestions == 3

\* ------------------------------------------------------------ Python values
PyStr(c) == [t |-> "str", v |-> c]
PyNum(lexeme) == [t |-> "num", v |-> lexeme]
PyBool(lexeme) == [t |-> "bool", v |-> lexeme]
PyNone == [t |-> "none", v |-> <<>>]
PyList(xs) == [t |-> "list", v |-> xs]
PyDict(pairs) == [t |-> "dict", v |-> pairs]
EmptyDict == PyDict(<<>>)
Unset == [t |-> "unset", v |-> <<>>]

DictHas(d, k) == \E i \in 1..Len(d.v) : d.v[i][1] = k
DictGet(d, k) == d.v[CHOOSE i \in 1..Len(d.v) : d.v[i][1] = k][2]
DictSet(d, k, x) ==
  IF DictHas(d, k)
  THEN PyDict([i \in 1..Len(d.v) |-> IF d.v[i][1] = k THEN <<k, x>> ELSE d.v[i]])
  ELSE PyDict(Append(d.v, <<k, x>>))
DictKeys(d) == {d.v[i][1] : i \in 1..Len(d.v)}

\* --------------------------------------------------------------- str methods
Whitespace == {" ", "\t", "\n", "\r"}

RECURSIVE LStrip(_)
LStrip(s) == IF s # <<>> /\ Head(s) \in Whitespace THEN LStrip(Tail(s)) ELSE s

RECURSIVE RStrip(_)
RStrip(s) ==
  IF s # <<>> /\ s[Len(s)] \in Whitespace THEN RStrip(SubSeq(s, 1, Len(s) - 1)) ELSE s

strip(s) == RStrip(LStrip(s))

startswith(s, p) == Len(s) >= Len(p) /\ SubSeq(s, 1, Len(p)) = p

endswith(s, p) == Len(s) >= Len(p) /\ SubSeq(s, Len(s) - Len(p) + 1, Len(s)) = p

IsSubstring(p, s) ==
  \E i \in 0..(Len(s) - Len(p)) : SubSeq(s, i + 1, i + Len(p)) = p

RECURSIVE split(_, _)
split(s, sep) ==
  IF \E i \in 1..Len(s) : s[i] = sep
  THEN LET i == CHOOSE n \in 1..Len(s) : s[n] = sep /\ \A j \in 1..(n - 1) : s[j] # sep
       IN  <<SubSeq(s, 1, i - 1)>> \o split(SubSeq(s, i + 1, Len(s)), sep)
  ELSE <<s>>

LowerLetters ==
  <<"a", "b", "c", "d", "e", "f", "g", "h", "i", "j", "k", "l", "m",
    "n", "o", "p", "q", "r", "s", "t", "u", "v", "w", "x", "y", "z">>
UpperLetters ==
  <<"A", "B", "C", "D", "E", "F", "G", "H", "I", "J", "K", "L", "M",
    "N", "O", "P", "Q", "R", "S", "T", "U", "V", "W", "X", "Y", "Z">>
IsUpper(c) == \E n \in 1..26 : UpperLetters[n] = c
IsLower(c) == \E n \in 1..26 : LowerLetters[n] = c
LowerChar(c) == IF IsUpper(c) THEN LowerLetters[CHOOSE n \in 1..26 : UpperLetters[n] = c] ELSE c
UpperChar(c) == IF IsLower(c) THEN UpperLetters[CHOOSE n \in 1..26 : LowerLetters[n] = c] ELSE c

lower(s) == [i \in 1..Len(s) |-> LowerChar(s[i])]

\* str.title(): a letter after a non-letter is upper-cased, any other letter lower-cased
title(s) ==
  [i \in 1..Len(s) |->
     IF i = 1 \/ ~(IsUpper(s[i - 1]) \/ IsLower(s[i - 1])) THEN UpperChar(s[i])
     ELSE LowerChar(s[i])]

replace(s, old, new) == [i \in 1..Len(s) |-> IF s[i] = old THEN new ELSE s[i]]

\* ------------------------------------------------------------------ json.loads
Digits == {"0", "1", "2", "3", "4", "5", "6", "7", "8", "9"}
ControlChars == {"\n", "\t", "\r"}
Escapes ==
  [c \in {"\"", "\\", "/", "n", "t", "r"} |->
     CASE c = "n" -> "\n" [] c = "t" -> "\t" [] c = "r" -> "\r" [] OTHER -> c]

Decoded(val, pos) == [ok |-> TRUE, val |-> val, pos |-> pos]
NotDecoded == [ok |-> FALSE, val |-> PyNone, pos |-> 0]

RECURSIVE SkipWS(_, _)
SkipWS(s, i) == IF i <= Len(s) /\ s[i] \in Whitespace THEN SkipWS(s, i + 1) ELSE i

RECURSIVE ScanDigits(_, _)
ScanDigits(s, i) == IF i <= Len(s) /\ s[i] \in Digits THEN ScanDigits(s, i + 1) ELSE i

\* NUMBER_RE: (-?(?:0|[1-9]\d*))(\.\d+)?([eE][-+]?\d+)? ; the index after the match, 0 if none
MatchNumber(s, i) ==
  LET a == IF i <= Len(s) /\ s[i] = "-" THEN i + 1 ELSE i
      intEnd == IF a <= Len(s) /\ s[a] = "0" THEN a + 1
                ELSE IF a <= Len(s) /\ s[a] \in Digits THEN ScanDigits(s, a)
                ELSE 0
      fracEnd == IF intEnd # 0 /\ intEnd <= Len(s) /\ s[intEnd] = "."
                    /\ ScanDigits(s, intEnd + 1) > intEnd + 1
                 THEN ScanDigits(s, intEnd + 1) ELSE intEnd
      expFrom == IF fracEnd + 1 <= Len(s) /\ s[fracEnd + 1] \in {"+", "-"}
                 THEN fracEnd + 2 ELSE fracEnd + 1
  IN  IF fracEnd # 0 /\ fracEnd <= Len(s) /\ s[fracEnd] \in {"e", "E"}
         /\ ScanDigits(s, expFrom) > expFrom
      THEN ScanDigits(s, expFrom) ELSE fracEnd

Literals ==
  << <<(<<"n", "u", "l", "l">>), PyNone>>,
     <<(<<"t", "r", "u", "e">>), PyBool(<<"t", "r", "u", "e">>)>>,
     <<(<<"f", "a", "l", "s", "e">>), PyBool(<<"f", "a", "l", "s", "e">>)>>,
     <<(<<"N", "a", "N">>), PyNum(<<"N", "a", "N">>)>>,
     <<(<<"I", "n", "f", "i", "n", "i", "t", "y">>), PyNum(<<"I", "n", "f", "i", "n", "i", "t", "y">>)>>,
     <<(<<"-", "I", "n", "f", "i", "n", "i", "t", "y">>),
       PyNum(<<"-", "I", "n", "f", "i", "n", "i", "t", "y">>)>> >>

MatchLiteral(s, i) ==
  IF \E n \in 1..Len(Literals) : startswith(SubSeq(s, i, Len(s)), Literals[n][1])
  THEN LET n == CHOOSE m \in 1..Len(Literals) :
                  startswith(SubSeq(s, i, Len(s)), Literals[m][1])
       IN  Decoded(Literals[n][2], i + Len(Literals[n][1]))
  ELSE NotDecoded

RECURSIVE ScanString(_, _, _)
ScanString(s, i, acc) ==
  IF i > Len(s) THEN NotDecoded
  ELSE IF s[i] = "\"" THEN Decoded(PyStr(acc), i + 1)
  ELSE IF s[i] = "\\"
       THEN IF i + 1 <= Len(s) /\ s[i + 1] \in DOMAIN Escapes
            THEN ScanString(s, i + 2, Append(acc, Escapes[s[i + 1]]))
            ELSE NotDecoded
  ELSE IF s[i] \in ControlChars THEN NotDecoded
  ELSE ScanString(s, i + 1, Append(acc, s[i]))

RECURSIVE ParseValue(_, _)
RECURSIVE ArrayItems(_, _, _)
RECURSIVE ObjectItems(_, _, _)

ParseArray(s, i) ==
  LET j == SkipWS(s, i)
  IN  IF j <= Len(s) /\ s[j] = "]" THEN Decoded(PyList(<<>>), j + 1)
      ELSE ArrayItems(s, j, <<>>)

ParseObject(s, i) ==
  LET j == SkipWS(s, i)
  IN  IF j <= Len(s) /\ s[j] = "}" THEN Decoded(EmptyDict, j + 1)
      ELSE ObjectItems(s, j, EmptyDict)

ParseValue(s, i) ==
  IF i > Len(s) THEN NotDecoded
  ELSE IF s[i] = "\"" THEN ScanString(s, i + 1, <<>>)
  ELSE IF s[i] = "{" THEN ParseObject(s, i + 1)
  ELSE IF s[i] = "[" THEN ParseArray(s, i + 1)
  ELSE IF MatchLiteral(s, i).ok THEN MatchLiteral(s, i)
  ELSE IF MatchNumber(s, i) # 0
       THEN Decoded(PyNum(SubSeq(s, i, MatchNumber(s, i) - 1)), MatchNumber(s, i))
  ELSE NotDecoded

ArrayItems(s, i, acc) ==
  LET r == ParseValue(s, i)
      j == SkipWS(s, r.pos)
  IN  IF ~r.ok \/ j > Len(s) THEN NotDecoded
      ELSE IF s[j] = "]" THEN Decoded(PyList(Append(acc, r.val)), j + 1)
      ELSE IF s[j] = "," THEN ArrayItems(s, SkipWS(s, j + 1), Append(acc, r.val))
      ELSE NotDecoded

ObjectItems(s, i, acc) ==
  LET k == IF i <= Len(s) /\ s[i] = "\"" THEN ScanString(s, i + 1, <<>>) ELSE NotDecoded
      c == SkipWS(s, k.pos)
      r == IF k.ok /\ c <= Len(s) /\ s[c] = ":"
           THEN ParseValue(s, SkipWS(s, c + 1)) ELSE NotDecoded
      j == SkipWS(s, r.pos)
  IN  IF ~r.ok \/ j > Len(s) THEN NotDecoded
      ELSE IF s[j] = "}" THEN Decoded(DictSet(acc, k.val.v, r.val), j + 1)
      ELSE IF s[j] = "," THEN ObjectItems(s, SkipWS(s, j + 1), DictSet(acc, k.val.v, r.val))
      ELSE NotDecoded

\* json.loads(s): ok = FALSE stands for JSONDecodeError
loads(s) ==
  LET r == ParseValue(s, SkipWS(s, 1))
  IN  IF r.ok /\ SkipWS(s, r.pos) = Len(s) + 1 THEN [ok |-> TRUE, val |-> r.val]
      ELSE [ok |-> FALSE, val |-> PyNone]

\* ------------------------------------------------------------- literal texts
K_code_improvements == <<"c", "o", "d", "e", "_", "i", "m", "p", "r", "o", "v", "e",
  "m", "e", "n", "t", "s">>
K_documentation_gaps == <<"d", "o", "c", "u", "m", "e", "n", "t", "a", "t", "i", "o",
  "n", "_", "g", "a", "p", "s">>
K_testing_needs == <<"t", "e", "s", "t", "i", "n", "g", "_", "n", "e", "e", "d", "s">>
K_performance_optimizations == <<"p", "e", "r", "f", "o", "r", "m", "a", "n", "c", "e",
  "_", "o", "p", "t", "i", "m", "i", "z", "a", "t", "i", "o", "n", "s">>
K_documentation == <<"d", "o", "c", "u", "m", "e", "n", "t", "a", "t", "i", "o", "n">>
K_testing == <<"t", "e", "s", "t", "i", "n", "g">>
K_performance == <<"p", "e", "r", "f", "o", "r", "m", "a", "n", "c", "e">>
K_suggestion == <<"s", "u", "g", "g", "e", "s", "t", "i", "o", "n">>
K_notes == <<"n", "o", "t", "e", "s">>
CategoryFooter == <<"\n", "C", "a", "t", "e", "g", "o", "r", "y", ":", " ">>
PriorityFooter == <<"\n", "P", "r", "i", "o", "r", "i", "t", "y", ":", " ", "M", "e",
  "d", "i", "u", "m", "\n">>
ExampleText == <<"1", ".", " ", "A", "d", "d", " ", "t", "e", "s", "t", "s", "\n", "f",
  "o", "r", " ", "e", "d", "g", "e", " ", "c", "a", "s", "e", "s", "\n", "2", ".", " ",
  "I", "m", "p", "r", "o", "v", "e", " ", "d", "o", "c", "s", "\n">>
S_AddTests == <<"A", "d", "d", " ", "t", "e", "s", "t", "s">>
S_ForEdgeCases == <<"f", "o", "r", " ", "e", "d", "g", "e", " ", "c", "a", "s", "e",
  "s">>
S_ImproveDocs == <<"I", "m", "p", "r", "o", "v", "e", " ", "d", "o", "c", "s">>
L_One == <<"1", ".", " ", "A">>
L_Two == <<" ", "2", ".">>
L_FourLabel == <<"4", ".", " ", "D", ":">>
L_Five == <<"5", ".", " ", "E">>
L_Prefix == <<"1", ".", "5", "x">>
L_Plain == <<"a">>
L_Padded == <<" ", "b", " ">>
L_Blank == <<>>
L_Spaces == <<" ">>
L_Label == <<"U", "n", "i", "t", " ", "T", "e", "s", "t", "s", ":">>
L_Number == <<"7">>
T_Oops == <<"{", "o", "o", "p", "s">>
\* a JSON array laid out so that its second line starts with an ordinal marker
T_JsonLines == <<"[", "\n", "1", ".", "5", ",", "\n", "\"", "a", "\"", "\n", "]">>

\* --------------------------------------------------------- Python operations
Ok(val) == [exc |-> "none", val |-> val]
Raise(e) == [exc |-> e, val |-> PyNone]

\* k in data, for a str k
Contains(data, k) ==
  CASE data.t = "dict" -> Ok(DictHas(data, k))
    [] data.t = "list" -> Ok(\E i \in 1..Len(data.v) : data.v[i] = PyStr(k))
    [] data.t = "str" -> Ok(IsSubstring(k, data.v))
    [] OTHER -> Raise("TypeError")

\* data[k], for a str k
GetItem(data, k) ==
  CASE data.t = "dict" -> IF DictHas(data, k) THEN Ok(DictGet(data, k)) ELSE Raise("KeyError")
    [] OTHER -> Raise("TypeError")

\* for s in x: the items, in order
Iterate(x) ==
  CASE x.t = "list" -> Ok(x.v)
    [] x.t = "dict" -> Ok([i \in 1..Len(x.v) |-> PyStr(x.v[i][1])])
    [] x.t = "str" -> Ok([i \in 1..Len(x.v) |-> PyStr(<<x.v[i]>>)])
    [] OTHER -> Raise("TypeError")

RECURSIVE ProjectItems(_, _)
ProjectItems(items, acc) ==
  IF items = <<>> THEN Ok(PyList(acc))
  ELSE LET g == GetItem(Head(items), K_suggestion)
       IN  IF g.exc # "none" THEN g ELSE ProjectItems(Tail(items), Append(acc, g.val))

\* the comprehension [s[suggestion] for s in x]
ProjectSuggestions(x) ==
  IF Iterate(x).exc # "none" THEN Iterate(x) ELSE ProjectItems(Iterate(x).val, <<>>)

\* except <clause>: does the clause catch the exception
ExceptionClasses ==
  {"JSONDecodeError", "TypeError", "KeyError", "NameError", "AttributeError",
   "ValidationError", "HTTPException", "GitHubError", "ModelError"}
CatchesValueErrorOnly(clause, e) ==
  CASE clause = "Exception" -> e = "JSONDecodeError"
    [] clause = "JSONDecodeError" -> e = "JSONDecodeError"
    [] OTHER -> FALSE
Catches(clause, e) ==
  CASE clause = "Exception" -> e \in ExceptionClasses
    [] clause = "JSONDecodeError" -> e = "JSONDecodeError"
    [] OTHER -> FALSE

\* -------------------------------------- GitHubAIAssistant._parse_analysis
\* JSON key tested, and the key of `suggestions` it is stored under
KeyTable ==
  << <<K_code_improvements, K_code_improvements>>,
     <<K_documentation_gaps, K_documentation>>,
     <<K_testing_needs, K_testing>>,
     <<K_performance_optimizations, K_performance>> >>
KnownKeys == {KeyTable[n][1] : n \in 1..Len(KeyTable)}

\* one statement: if <key> in data: suggestions[<cat>] = [...]
ExtractKey(d, row, sugg) ==
  LET c == Contains(d, row[1])
      g == GetItem(d, row[1])
      p == ProjectSuggestions(g.val)
  IN  IF c.exc # "none" THEN c
      ELSE IF ~c.val THEN Ok(sugg)
      ELSE IF g.exc # "none" THEN g
      ELSE IF p.exc # "none" THEN p
      ELSE Ok(DictSet(sugg, row[2], p.val))

\* ordinal prefix tested, and the category it selects
OrdinalTable ==
  << <<(<<"1", ".">>), K_code_improvements>>,
     <<(<<"2", ".">>), K_documentation>>,
     <<(<<"3", ".">>), K_testing>>,
     <<(<<"4", ".">>), K_performance>> >>

IsOrdinal(line) == \E n \in 1..Len(OrdinalTable) : startswith(line, OrdinalTable[n][1])
OrdinalCategory(line) ==
  OrdinalTable[CHOOSE n \in 1..Len(OrdinalTable) : startswith(line, OrdinalTable[n][1])][2]

Truthy(x) == x.t # "none" /\ x.v # <<>>

AppendTo(sugg, cat, entry) ==
  IF DictHas(sugg, cat)
  THEN DictSet(sugg, cat, PyList(Append(DictGet(sugg, cat).v, entry)))
  ELSE DictSet(sugg, cat, PyList(<<entry>>))

AnalysisLineBlankResets(cc, sugg, line) ==
  IF IsOrdinal(line) THEN [cc |-> PyStr(OrdinalCategory(line)), sugg |-> sugg]
  ELSE IF Truthy(cc) /\ line # <<>>
       THEN [cc |-> cc, sugg |-> AppendTo(sugg, cc.v, PyStr(line))]
  ELSE [cc |-> PyNone, sugg |-> sugg]
AnalysisLineKeepsMarkerText(cc, sugg, line) ==
  IF IsOrdinal(line)
  THEN [cc |-> PyStr(OrdinalCategory(line)),
        sugg |-> IF strip(SubSeq(line, 3, Len(line))) # <<>>
                 THEN AppendTo(sugg, OrdinalCategory(line),
                               PyStr(strip(SubSeq(line, 3, Len(line)))))
                 ELSE sugg]
  ELSE IF Truthy(cc) /\ line # <<>>
       THEN [cc |-> cc, sugg |-> AppendTo(sugg, cc.v, PyStr(line))]
  ELSE [cc |-> cc, sugg |-> sugg]
AnalysisLineDefaultCategory(cc, sugg, line) ==
  IF IsOrdinal(line) THEN [cc |-> PyStr(OrdinalCategory(line)), sugg |-> sugg]
  ELSE IF line # <<>>
       THEN [cc |-> cc, sugg |-> AppendTo(sugg, IF Truthy(cc) THEN cc.v ELSE K_notes, PyStr(line))]
  ELSE [cc |-> cc, sugg |-> sugg]
AnalysisLineStrictOrdinal(cc, sugg, line) ==
  IF IsOrdinal(line) /\ (Len(line) = 2 \/ line[3] = " ")
  THEN [cc |-> PyStr(OrdinalCategory(line)), sugg |-> sugg]
  ELSE IF Truthy(cc) /\ line # <<>>
       THEN [cc |-> cc, sugg |-> AppendTo(sugg, cc.v, PyStr(line))]
  ELSE [cc |-> cc, sugg |-> sugg]
\* the body of the loop over analysis.split, line already stripped
AnalysisLine(cc, sugg, line) ==
  IF IsOrdinal(line) THEN [cc |-> PyStr(OrdinalCategory(line)), sugg |-> sugg]
  ELSE IF Truthy(cc) /\ line # <<>>
       THEN [cc |-> cc, sugg |-> AppendTo(sugg, cc.v, PyStr(line))]
  ELSE [cc |-> cc, sugg |-> sugg]

\* ------------------------------------- TestAutomationAgent._parse_response
\* specialized_agents.py never imports json: the name lookup in json.loads raises
JsonLookup == Raise("NameError")

ResponseBody(line, cat) == line \o CategoryFooter \o cat \o PriorityFooter

ResponseLine(cc, sugg, line) ==
  IF endswith(line, <<":">>)
  THEN LET cat == replace(lower(SubSeq(line, 1, Len(line) - 1)), " ", "_")
       IN  [cc |-> PyStr(cat), sugg |-> DictSet(sugg, cat, PyList(<<>>))]
  ELSE IF Truthy(cc) /\ line # <<>>
       THEN [cc |-> cc, sugg |-> AppendTo(sugg, cc.v, PyStr(ResponseBody(line, cc.v)))]
  ELSE [cc |-> cc, sugg |-> sugg]

\* ------------------------------------------------- the model's response text
RECURSIVE dumps(_)
RECURSIVE dumpsItems(_)
RECURSIVE dumpsPairs(_)
dumps(x) ==
  CASE x.t = "str" -> <<"\"">> \o x.v \o <<"\"">>
    [] x.t = "list" -> <<"[">> \o dumpsItems(x.v) \o <<"]">>
    [] x.t = "dict" -> <<"{">> \o dumpsPairs(x.v) \o <<"}">>
    [] x.t = "none" -> <<"n", "u", "l", "l">>
    [] OTHER -> x.v
dumpsItems(xs) ==
  IF xs = <<>> THEN <<>>
  ELSE dumps(Head(xs)) \o (IF Len(xs) > 1 THEN <<",", " ">> ELSE <<>>) \o dumpsItems(Tail(xs))
dumpsPairs(ps) ==
  IF ps = <<>> THEN <<>>
  ELSE dumps(PyStr(Head(ps)[1])) \o <<":", " ">> \o dumps(Head(ps)[2])
       \o (IF Len(ps) > 1 THEN <<",", " ">> ELSE <<>>) \o dumpsPairs(Tail(ps))

RECURSIVE JoinLines(_)
JoinLines(ls) ==
  IF Len(ls) = 1 THEN ls[1] ELSE ls[1] \o <<"\n">> \o JoinLines(Tail(ls))

S_a == <<"a">>
S_b == <<"b">>
Record(s) == PyDict(<< <<K_suggestion, PyStr(s)>> >>)
StringArray == PyList(<<PyStr(S_a), PyStr(S_b)>>)
RecordArray == PyList(<<Record(S_a), Record(S_b)>>)
ValueChoices ==
  { StringArray, RecordArray, PyList(<<>>),
    PyList(<<PyDict(<< <<K_notes, PyStr(S_a)>> >>)>>), PyNum(<<"5">>), PyNone }
JsonKeys == KnownKeys \cup {K_notes}

ObjectsOfSize(n) ==
  { PyDict([i \in 1..n |-> <<ks[i], vs[i]>>]) :
      ks \in {f \in [1..n -> JsonKeys] : \A i, j \in 1..n : i # j => f[i] # f[j]},
      vs \in [1..n -> ValueChoices] }
Objects == UNION {ObjectsOfSize(n) : n \in 0..MaxKeys}

OtherJson ==
  { PyNum(<<"5">>), PyNone, PyBool(<<"t", "r", "u", "e">>), PyList(<<>>),
    PyStr(K_code_improvements), PyList(<<PyStr(K_code_improvements)>>) }

LineChoices ==
  { L_One, L_Two, L_FourLabel, L_Five, L_Prefix, L_Plain, L_Padded, L_Blank, L_Spaces,
    L_Label, L_Number }
LineTexts == {JoinLines(ls) : ls \in UNION {[1..n -> LineChoices] : n \in 1..MaxLines}}

ResponseTexts ==
  {dumps(x) : x \in Objects \cup OtherJson}
    \cup {<<"\n">> \o dumps(x) \o <<"\n">> : x \in ObjectsOfSize(1)}
    \cup LineTexts \cup {ExampleText, T_Oops, T_JsonLines}


\* ------------------------------------------------------------ issue filing
TitleLen == 50
K_code_quality == <<"c", "o", "d", "e", "_", "q", "u", "a", "l", "i", "t", "y">>
P_AISuggestion == <<"[", "A", "I", " ", "S", "u", "g", "g", "e", "s", "t", "i", "o", "n", "]", " ">>
S_long == [i \in 1..(TitleLen + 1) |-> "x"]

\* s[:n]
Prefix(s, n) == SubSeq(s, 1, IF Len(s) < n THEN Len(s) ELSE n)

\* analysis.items() with the inner loop over each list: the (category, suggestion)
\* pairs in iteration order
RECURSIVE PairsFrom(_, _)
PairsFrom(d, n) ==
  IF n > Len(d.v) THEN <<>>
  ELSE [i \in 1..Len(d.v[n][2].v) |-> <<d.v[n][1], d.v[n][2].v[i].v>>] \o PairsFrom(d, n + 1)
Pairs(d) == PairsFrom(d, 1)

CategoryLabel(cat) == title(replace(cat, "_", " "))

\* ai_agent.py: f"[AI Suggestion] {category.replace('_', ' ').title()}: {suggestion[:50]}"
CycleTitle(cat, sugg) == P_AISuggestion \o CategoryLabel(cat) \o <<":", " ">> \o Prefix(sugg, TitleLen)
\* issue_agent.py: f"[{category.replace('_', ' ').title()}] {suggestion[:50]}"
AgentTitle(cat, sugg) == <<"[">> \o CategoryLabel(cat) \o <<"]", " ">> \o Prefix(sugg, TitleLen)
\* api.py: f"{category.title()} - {suggestion[:50]}..."
HandlerTitle(cat, sugg) ==
  title(cat) \o <<" ", "-", " ">> \o Prefix(sugg, TitleLen) \o <<".", ".", ".">>

\* the issue body, as the values interpolated into its template
CycleBody(cat, sugg) == <<sugg, CategoryLabel(cat)>>
AgentBody(d, cat, sugg) == <<sugg, CategoryLabel(cat), DictGet(d, cat)>>
HandlerBody(sugg) == <<sugg>>

\* the (category, suggestion) sequences the analysis maps are built from
RECURSIVE MapOf(_)
MapOf(ps) ==
  IF ps = <<>> THEN EmptyDict
  ELSE AppendTo(MapOf(SubSeq(ps, 1, Len(ps) - 1)), ps[Len(ps)][1], PyStr(ps[Len(ps)][2]))
AnalysisMaps ==
  { MapOf(ps) :
      ps \in UNION { [1..n -> {K_testing, K_code_quality} \X {S_a, S_long}] :
                     n \in 0..MaxSuggestions } }

\* ---------------------------------------------------------------- the state
VARIABLES parser, raw, pc, data, keyIdx, suggestions, current_category, lines, idx,
          result, caught, raised
\* the filing loops: which loop runs, the analysis it files, the positions at
\* which the hosting service rejects repo.create_issue, the next pair, the
\* repo.create_issue calls made, the issues the service holds, the coroutine
\* objects created and never awaited, and the loop's own results
VARIABLES loop, analysis, rejects, fpc, cursor, attempts, hostIssues, coroutines,
          created_issues, issues_created, response
\* repeated calls of one parser on one text: the number of the call in progress
\* and what the first call returned
VARIABLES calls, first
\* the api.py handlers: the requests, each handler's position, the task that
\* holds the event loop, the repo and repo_info attributes of the four agent
\* singletons, each handler's local analysis, the calls that reached the hosting
\* service and the model, and the answer each client got
VARIABLES request, hpc, running, agent_repo, repo_info, handlerAnalysis, hostCalls,
          modelCalls, answers

parseVars ==
  <<parser, raw, pc, data, keyIdx, suggestions, current_category, lines, idx,
    result, caught, raised>>
fileVars ==
  <<loop, analysis, rejects, fpc, cursor, attempts, hostIssues, coroutines,
    created_issues, issues_created, response>>
callVars == <<calls, first>>
apiVars ==
  <<request, hpc, running, agent_repo, repo_info, handlerAnalysis, hostCalls,
    modelCalls, answers>>
vars == <<parseVars, callVars, fileVars, apiVars>>

FileIdle ==
  /\ loop = "none"
  /\ analysis = EmptyDict
  /\ rejects = {}
  /\ fpc = "idle"
  /\ cursor = 0
  /\ attempts = <<>>
  /\ hostIssues = <<>>
  /\ coroutines = <<>>
  /\ created_issues = <<>>
  /\ issues_created = 0
  /\ response = Unset

ParseIdle ==
  /\ parser = "none"
  /\ raw = <<>>
  /\ pc = "idle"
  /\ data = Unset
  /\ keyIdx = 0
  /\ suggestions = Unset
  /\ current_category = Unset
  /\ lines = <<>>
  /\ idx = 0
  /\ result = Unset
  /\ caught = "none"
  /\ raised = "none"
  /\ calls = 0
  /\ first = Unset

ApiIdle ==
  /\ request = <<>>
  /\ hpc = <<>>
  /\ running = "none"
  /\ agent_repo = <<>>
  /\ repo_info = <<>>
  /\ handlerAnalysis = <<>>
  /\ hostCalls = <<>>
  /\ modelCalls = <<>>
  /\ answers = <<>>

ParseInit ==
  /\ FileIdle
  /\ ApiIdle
  /\ calls = 1
  /\ first = Unset
  /\ parser \in {"_parse_analysis", "_parse_response"}
  /\ raw \in ResponseTexts
  /\ pc = "start"
  /\ data = Unset
  /\ keyIdx = 0
  /\ suggestions = Unset
  /\ current_category = Unset
  /\ lines = <<>>
  /\ idx = 0
  /\ result = Unset
  /\ caught = "none"
  /\ raised = "none"

\* an exception raised inside a try block whose except clauses are `clauses`,
\* innermost first: the clause that catches it, "" if it propagates
CaughtBy(clauses, e) ==
  IF \E n \in 1..Len(clauses) : Catches(clauses[n], e)
  THEN clauses[CHOOSE n \in 1..Len(clauses) :
                 Catches(clauses[n], e) /\ \A m \in 1..(n - 1) : ~Catches(clauses[m], e)]
  ELSE ""

AnalysisClauses == <<"JSONDecodeError", "Exception">>
ResponseClauses == <<"Exception">>

StartScanKeepsSuggestions ==
  /\ pc' = "scan"
  /\ suggestions' = IF suggestions = Unset THEN EmptyDict ELSE suggestions
  /\ current_category' = PyNone
  /\ lines' = split(raw, "\n")
  /\ idx' = 1
StartScan ==
  /\ pc' = "scan"
  /\ suggestions' = EmptyDict
  /\ current_category' = PyNone
  /\ lines' = split(raw, "\n")
  /\ idx' = 1

\* json.loads raises JSONDecodeError; the inner except falls through to the scan
JsonDecodeError ==
  /\ parser = "_parse_analysis" /\ pc = "start"
  /\ ~loads(raw).ok
  /\ IF CaughtBy(AnalysisClauses, "JSONDecodeError") = "JSONDecodeError"
     THEN StartScan /\ UNCHANGED <<result, caught, raised>>
     ELSE /\ pc' = "done"
          /\ IF CaughtBy(AnalysisClauses, "JSONDecodeError") = "Exception"
             THEN result' = EmptyDict /\ caught' = "JSONDecodeError" /\ raised' = raised
             ELSE raised' = "JSONDecodeError" /\ UNCHANGED <<result, caught>>
          /\ suggestions' = EmptyDict
          /\ UNCHANGED <<current_category, lines, idx>>
  /\ UNCHANGED <<parser, raw, data, keyIdx>>

JsonDecoded ==
  /\ parser = "_parse_analysis" /\ pc = "start"
  /\ loads(raw).ok
  /\ data' = loads(raw).val
  /\ suggestions' = EmptyDict
  /\ keyIdx' = 1
  /\ pc' = "json"
  /\ UNCHANGED <<parser, raw, current_category, lines, idx, result, caught, raised>>

\* one of the four key statements; an exception leaves through the outer except
JsonExtract ==
  /\ pc = "json" /\ keyIdx <= Len(KeyTable)
  /\ LET r == ExtractKey(data, KeyTable[keyIdx], suggestions)
     IN  IF r.exc = "none"
         THEN /\ suggestions' = r.val
              /\ keyIdx' = keyIdx + 1
              /\ UNCHANGED <<pc, result, caught, raised>>
         ELSE /\ pc' = "done"
              /\ IF CaughtBy(AnalysisClauses, r.exc) = "Exception"
                 THEN result' = EmptyDict /\ caught' = r.exc /\ raised' = raised
                 ELSE raised' = r.exc /\ UNCHANGED <<result, caught>>
              /\ UNCHANGED <<suggestions, keyIdx>>
  /\ UNCHANGED <<parser, raw, data, current_category, lines, idx>>

JsonReturnFallsThrough ==
  /\ pc = "json" /\ keyIdx > Len(KeyTable)
  /\ IF suggestions = EmptyDict
     THEN StartScan /\ UNCHANGED <<result, caught, raised>>
     ELSE /\ result' = suggestions
          /\ pc' = "done"
          /\ UNCHANGED <<suggestions, current_category, lines, idx, caught, raised>>
  /\ UNCHANGED <<parser, raw, data, keyIdx>>
JsonReturn ==
  /\ pc = "json" /\ keyIdx > Len(KeyTable)
  /\ result' = suggestions
  /\ pc' = "done"
  /\ UNCHANGED <<parser, raw, data, keyIdx, suggestions, current_category, lines, idx,
                 caught, raised>>

ScanLine ==
  /\ parser = "_parse_analysis" /\ pc = "scan" /\ idx <= Len(lines)
  /\ LET r == AnalysisLine(current_category, suggestions, strip(lines[idx]))
     IN  current_category' = r.cc /\ suggestions' = r.sugg
  /\ idx' = idx + 1
  /\ UNCHANGED <<parser, raw, pc, data, keyIdx, lines, result, caught, raised>>

ScanReturn ==
  /\ pc = "scan" /\ idx > Len(lines)
  /\ result' = suggestions
  /\ pc' = "done"
  /\ UNCHANGED <<parser, raw, data, keyIdx, suggestions, current_category, lines, idx,
                 caught, raised>>

\* content.startswith('{'): json.loads(content) raises; the except prints and
\* returns {}
ResponseJson ==
  /\ parser = "_parse_response" /\ pc = "start"
  /\ startswith(raw, <<"{">>)
  /\ pc' = "done"
  /\ IF CaughtBy(ResponseClauses, JsonLookup.exc) = "Exception"
     THEN result' = EmptyDict /\ caught' = JsonLookup.exc /\ raised' = raised
     ELSE raised' = JsonLookup.exc /\ UNCHANGED <<result, caught>>
  /\ UNCHANGED <<parser, raw, data, keyIdx, suggestions, current_category, lines, idx>>

ResponseText ==
  /\ parser = "_parse_response" /\ pc = "start"
  /\ ~startswith(raw, <<"{">>)
  /\ StartScan
  /\ UNCHANGED <<parser, raw, data, keyIdx, result, caught, raised>>

ResponseScanLine ==
  /\ parser = "_parse_response" /\ pc = "scan" /\ idx <= Len(lines)
  /\ LET r == ResponseLine(current_category, suggestions, strip(lines[idx]))
     IN  current_category' = r.cc /\ suggestions' = r.sugg
  /\ idx' = idx + 1
  /\ UNCHANGED <<parser, raw, pc, data, keyIdx, lines, result, caught, raised>>

ParseNext ==
  \/ JsonDecodeError /\ UNCHANGED <<callVars, fileVars, apiVars>>
  \/ JsonDecoded /\ UNCHANGED <<callVars, fileVars, apiVars>>
  \/ JsonExtract /\ UNCHANGED <<callVars, fileVars, apiVars>>
  \/ JsonReturn /\ UNCHANGED <<callVars, fileVars, apiVars>>
  \/ ScanLine /\ UNCHANGED <<callVars, fileVars, apiVars>>
  \/ ScanReturn /\ UNCHANGED <<callVars, fileVars, apiVars>>
  \/ ResponseJson /\ UNCHANGED <<callVars, fileVars, apiVars>>
  \/ ResponseText /\ UNCHANGED <<callVars, fileVars, apiVars>>
  \/ ResponseScanLine /\ UNCHANGED <<callVars, fileVars, apiVars>>

Spec == ParseInit /\ [][ParseNext]_vars

\* the parser is called a second time on the same text. The second call starts
\* with whatever the first call left in the variables: it agrees with a fresh
\* call only if it assigns everything before reading it
CallAgain ==
  /\ pc = "done" /\ calls = 1 /\ raised = "none"
  /\ first' = result
  /\ calls' = calls + 1
  /\ pc' = "start"
  /\ result' = Unset
  /\ caught' = "none"
  /\ UNCHANGED <<parser, raw, data, keyIdx, suggestions, current_category, lines, idx,
                 raised>>

TwiceNext ==
  \/ ParseNext
  \/ CallAgain /\ UNCHANGED <<fileVars, apiVars>>

TwiceSpec == ParseInit /\ [][TwiceNext]_vars

\* ------------------------------------------------------- the filing loops
FileInit ==
  /\ ParseIdle
  /\ ApiIdle
  /\ loop \in {"run_analysis_cycle", "create_issues", "analyze_issues"}
  /\ analysis \in AnalysisMaps
  /\ rejects \in SUBSET (1..Len(Pairs(analysis)))
  /\ fpc = "filing"
  /\ cursor = 1
  /\ attempts = <<>>
  /\ hostIssues = <<>>
  /\ coroutines = <<>>
  /\ created_issues = <<>>
  /\ issues_created = 0
  /\ response = Unset

\* self.repo.create_issue(title=title, body=body): the call reaches the hosting
\* service, which raises at the rejected positions and stores the issue otherwise
RepoCreateIssue(issue) ==
  /\ attempts' = Append(attempts, issue)
  /\ hostIssues' = IF issue.pos \in rejects THEN hostIssues ELSE Append(hostIssues, issue)

\* BaseAgent.create_issue: the status of the dict it returns
CreateIssueStatus(pos) == IF pos \in rejects THEN "error" ELSE "success"

\* run_analysis_cycle: one iteration; create_issue catches the error, the bool
\* it returns is dropped
CycleFile ==
  /\ loop = "run_analysis_cycle" /\ fpc = "filing" /\ cursor <= Len(Pairs(analysis))
  /\ LET cat == Pairs(analysis)[cursor][1]
         sugg == Pairs(analysis)[cursor][2]
     IN  RepoCreateIssue([pos |-> cursor, title |-> CycleTitle(cat, sugg),
                          body |-> CycleBody(cat, sugg)])
  /\ cursor' = cursor + 1
  /\ UNCHANGED <<loop, analysis, rejects, fpc, coroutines, created_issues,
                 issues_created, response>>

\* IssueReportingAgent.create_issues: one iteration
CreateIssuesFile ==
  /\ loop = "create_issues" /\ fpc = "filing" /\ cursor <= Len(Pairs(analysis))
  /\ LET cat == Pairs(analysis)[cursor][1]
         sugg == Pairs(analysis)[cursor][2]
     IN  RepoCreateIssue([pos |-> cursor, title |-> AgentTitle(cat, sugg),
                          body |-> AgentBody(analysis, cat, sugg)])
  /\ created_issues' = IF CreateIssueStatus(cursor) = "success"
                       THEN Append(created_issues, cursor) ELSE created_issues
  /\ cursor' = cursor + 1
  /\ UNCHANGED <<loop, analysis, rejects, fpc, coroutines, issues_created, response>>

\* the /api/analyze/issues handler: one iteration; issue_agent.create_issue is
\* an async method called without await, so the call only builds a coroutine
\* object and the body of create_issue never runs
HandlerFile ==
  /\ loop = "analyze_issues" /\ fpc = "filing" /\ cursor <= Len(Pairs(analysis))
  /\ LET cat == Pairs(analysis)[cursor][1]
         sugg == Pairs(analysis)[cursor][2]
     IN  coroutines' = Append(coroutines, [pos |-> cursor, title |-> HandlerTitle(cat, sugg),
                                           body |-> HandlerBody(sugg)])
  /\ issues_created' = issues_created + 1
  /\ cursor' = cursor + 1
  /\ UNCHANGED <<loop, analysis, rejects, fpc, attempts, hostIssues, created_issues,
                 response>>

\* the loop is exhausted: run_analysis_cycle returns nothing, create_issues
\* returns created_issues
LoopReturn ==
  /\ loop \in {"run_analysis_cycle", "create_issues"}
  /\ fpc = "filing" /\ cursor > Len(Pairs(analysis))
  /\ fpc' = "done"
  /\ UNCHANGED <<loop, analysis, rejects, cursor, attempts, hostIssues, coroutines,
                 created_issues, issues_created, response>>

\* the handler returns AnalysisResponse(status="success", ...)
HandlerRespond ==
  /\ loop = "analyze_issues" /\ fpc = "filing" /\ cursor > Len(Pairs(analysis))
  /\ response' = [status |-> "success", suggestions |-> analysis,
                  issues_created |-> issues_created]
  /\ fpc' = "done"
  /\ UNCHANGED <<loop, analysis, rejects, cursor, attempts, hostIssues, coroutines,
                 created_issues, issues_created>>

FileNext ==
  \/ CycleFile /\ UNCHANGED <<parseVars, callVars, apiVars>>
  \/ CreateIssuesFile /\ UNCHANGED <<parseVars, callVars, apiVars>>
  \/ HandlerFile /\ UNCHANGED <<parseVars, callVars, apiVars>>
  \/ LoopReturn /\ UNCHANGED <<parseVars, callVars, apiVars>>
  \/ HandlerRespond /\ UNCHANGED <<parseVars, callVars, apiVars>>

FileSpec == FileInit /\ [][FileNext]_vars

\* ------------------------------------------------------- the api.py handlers
Requests == {"r1", "r2"}
Endpoints ==
  {"analyze_issues", "analyze_code", "analyze_tests", "create_issue", "review_pr",
   "create_review"}
Agents == {"issue_agent", "code_agent", "test_agent", "pr_agent"}

\* the agent singleton a handler works on
AgentOf(endpoint) ==
  CASE endpoint \in {"analyze_issues", "create_issue"} -> "issue_agent"
    [] endpoint = "analyze_code" -> "code_agent"
    [] endpoint = "analyze_tests" -> "test_agent"
    [] endpoint \in {"review_pr", "create_review"} -> "pr_agent"

\* the repository every agent is constructed for when the module is imported
DefaultRepo == <<"tensorus", "tensorus">>

\* the keys a handler reads with repo_data.get
FieldsRead(endpoint) ==
  CASE endpoint = "create_issue" -> {"owner", "repo", "title", "body"}
    [] endpoint \in {"review_pr", "create_review"} -> {"owner", "repo", "pr_number"}
    [] OTHER -> {"owner", "repo"}

\* the values of a field in a request body; "" stands for every falsy value
\* (key absent, None, empty string, 0)
FieldValues(field) ==
  CASE field = "owner" -> {"", "octo", "acme"}
    [] field = "repo" -> {"", "app"}
    [] field = "title" -> {"", "t"}
    [] field = "body" -> {"", "b"}
    [] field = "pr_number" -> {"", "7"}

Bodies(endpoint) ==
  { b \in [FieldsRead(endpoint) -> {"", "octo", "acme", "app", "t", "b", "7"}] :
      \A f \in FieldsRead(endpoint) : b[f] \in FieldValues(f) }

RequestChoices ==
  UNION { { [endpoint |-> e, repo_data |-> b] : b \in Bodies(e) } : e \in Endpoints }

\* the 'if not owner or not repo [or not ...]' test of a handler, which tests
\* every field the handler read
RejectedIgnoresExtraFields(endpoint, repo_data) ==
  repo_data["owner"] = "" \/ repo_data["repo"] = ""
Rejected(endpoint, repo_data) ==
  \E f \in FieldsRead(endpoint) : repo_data[f] = ""

\* the answer a client gets: the status code, the detail of an error, and for
\* an AnalysisResponse its suggestions and issues_created
Answer(code, detail, sugg, count) ==
  [status_code |-> code, detail |-> detail, suggestions |-> sugg, issues_created |-> count]

\* an exception e with message m raised inside a handler's try block: except
\* Exception turns it into HTTPException(500, detail=str(e)); an exception the
\* clause would not catch leaves with its own status code
HandlerError(e, code, m) ==
  IF Catches("Exception", e)
  THEN Answer(500, m, Unset, 0)
  ELSE Answer(code, m, Unset, 0)

\* self._format_repo_info(): only IssueReportingAgent defines the method; it
\* formats self.repo_info, the dictionary stored by BaseAgent.__init__
FormatRepoInfo(agent, info) ==
  IF agent = "issue_agent" THEN Ok(info[agent]) ELSE Raise("AttributeError")

\* what self.model.generate_content does: raise, or return a response whose
\* text is one of these
K_code_changes == <<"c", "o", "d", "e", "_", "c", "h", "a", "n", "g", "e", "s">>
FullReview ==
  PyDict(<< <<K_code_changes, PyList(<<PyStr(S_a)>>)>>, <<K_testing, PyList(<<PyStr(S_b)>>)>>,
            <<K_documentation, PyList(<<PyStr(S_a)>>)>>,
            <<K_performance, PyList(<<PyStr(S_b)>>)>> >>)
PartialReview == PyDict(<< <<K_testing, PyList(<<PyStr(S_a)>>)>> >>)
ModelReplies ==
  {[raises |-> TRUE, text |-> <<>>]}
    \cup {[raises |-> FALSE, text |-> t] :
            t \in {T_Oops, dumps(PartialReview), dumps(FullReview),
                   dumps(PyList(<<PyStr(S_a)>>))}}

\* BaseAgent.analyze: json.loads(response.text), and {} after any exception
analyze(reply) ==
  LET e == IF reply.raises THEN "ModelError"
           ELSE IF loads(reply.text).ok THEN "none" ELSE "JSONDecodeError"
  IN  IF e = "none" THEN Ok(loads(reply.text).val)
      ELSE IF Catches("Exception", e) THEN Ok(EmptyDict) ELSE Raise(e)

\* one await self.analyze(prompt): whether the model client raised, and what
\* analyze returned
ModelOutcomes ==
  {[raised |-> reply.raises, returned |-> analyze(reply)] : reply \in ModelReplies}

\* AnalysisResponse(suggestions=...): the field is Dict[str, List[str]]
Validates(x) ==
  /\ x.t = "dict"
  /\ \A i \in 1..Len(x.v) :
       x.v[i][2].t = "list" /\ \A j \in 1..Len(x.v[i][2].v) : x.v[i][2].v[j].t = "str"

\* the issues_created a handler reports: the analyze_issues handler counts one
\* per (category, suggestion) pair, the other handlers pass the literal 0
IssuesCreatedCountsEverywhere(endpoint, x) == Len(Pairs(x))
IssuesCreated(endpoint, x) ==
  IF endpoint = "analyze_issues" THEN Len(Pairs(x)) ELSE 0

\* the four analysis[...] subscripts of PRReviewAgent.create_review, in order
ReviewKeys == <<K_code_changes, K_testing, K_documentation, K_performance>>
RECURSIVE ReviewSections(_, _)
ReviewSections(x, n) ==
  IF n > Len(ReviewKeys) THEN Ok(<<>>)
  ELSE LET g == GetItem(x, ReviewKeys[n])
       IN  IF g.exc # "none" THEN g
           ELSE LET rest == ReviewSections(x, n + 1)
                IN  IF rest.exc # "none" THEN rest ELSE Ok(<<g.val>> \o rest.val)

HostCall(r, op, on, ok) == [by |-> r, op |-> op, on |-> on, ok |-> ok]
ModelCall(r, about, out) == [by |-> r, about |-> about, raised |-> out.raised]
Target(r) == <<request[r].repo_data["owner"], request[r].repo_data["repo"]>>

ApiInit ==
  /\ ParseIdle
  /\ FileIdle
  /\ request \in [Requests -> RequestChoices]
  /\ hpc = [r \in Requests |-> "pending"]
  /\ running = "none"
  /\ agent_repo = [a \in Agents |-> DefaultRepo]
  /\ repo_info = [a \in Agents |-> DefaultRepo]
  /\ handlerAnalysis = [r \in Requests |-> Unset]
  /\ hostCalls = <<>>
  /\ modelCalls = <<>>
  /\ answers = [r \in Requests |-> Unset]

\* the handler returns or raises: the client is answered and the event loop is free
Finish(r, answer) ==
  /\ answers' = [answers EXCEPT ![r] = answer]
  /\ hpc' = [hpc EXCEPT ![r] = "done"]
  /\ running' = "none"

\* the server starts the handler, which suspends in 'await request.json()'
Receive(r) ==
  /\ hpc[r] = "pending" /\ running = "none"
  /\ hpc' = [hpc EXCEPT ![r] = "json"]
  /\ UNCHANGED <<request, running, agent_repo, repo_info, handlerAnalysis, hostCalls,
                 modelCalls, answers>>

\* the body has arrived and the handler resumes; from here to its return the
\* handler awaits only coroutines that never suspend, so it keeps the event loop
Validate(r) ==
  /\ hpc[r] = "json" /\ running = "none"
  /\ IF Rejected(request[r].endpoint, request[r].repo_data)
     THEN Finish(r, HandlerError("HTTPException", 400, "required"))
     ELSE /\ hpc' = [hpc EXCEPT ![r] = "bind"]
          /\ running' = r
          /\ UNCHANGED answers
  /\ UNCHANGED <<request, agent_repo, repo_info, handlerAnalysis, hostCalls, modelCalls>>

\* X_agent.repo = X_agent.gh.repository(owner, repo)
Rebind(r) ==
  /\ hpc[r] = "bind"
  /\ \E ok \in BOOLEAN :
       /\ hostCalls' = Append(hostCalls, HostCall(r, "repository", Target(r), ok))
       /\ IF ok
          THEN /\ agent_repo' = [agent_repo EXCEPT ![AgentOf(request[r].endpoint)] = Target(r)]
               /\ hpc' = [hpc EXCEPT ![r] = "bound"]
               /\ UNCHANGED <<running, answers>>
          ELSE /\ Finish(r, HandlerError("GitHubError", 500, "GitHubError"))
               /\ UNCHANGED agent_repo
  /\ UNCHANGED <<request, repo_info, handlerAnalysis, modelCalls>>

\* analyze_issues, analyze_code, analyze_tests after the rebinding: the agent
\* builds its prompt with self._format_repo_info() and awaits self.analyze; the
\* analyze_issues handler then loops over the pairs, calling the async
\* create_issue without await, and counts them
AnalyzeHandler(r) ==
  /\ hpc[r] = "bound"
  /\ request[r].endpoint \in {"analyze_issues", "analyze_code", "analyze_tests"}
  /\ LET a == AgentOf(request[r].endpoint)
         info == FormatRepoInfo(a, repo_info)
     IN  IF info.exc # "none"
         THEN /\ Finish(r, HandlerError(info.exc, 500, info.exc))
              /\ UNCHANGED <<handlerAnalysis, modelCalls>>
         ELSE \E out \in ModelOutcomes :
                /\ modelCalls' = Append(modelCalls, ModelCall(r, info.val, out))
                /\ handlerAnalysis' = [handlerAnalysis EXCEPT ![r] = out.returned.val]
                /\ IF out.returned.exc # "none"
                   THEN Finish(r, HandlerError(out.returned.exc, 500, out.returned.exc))
                   ELSE IF out.returned.val.t # "dict"
                   THEN Finish(r, HandlerError("AttributeError", 500, "AttributeError"))
                   ELSE IF ~Validates(out.returned.val)
                   THEN Finish(r, HandlerError("ValidationError", 500, "ValidationError"))
                   ELSE Finish(r, Answer(200, "success", out.returned.val,
                                         IssuesCreated(request[r].endpoint,
                                                       out.returned.val)))
  /\ UNCHANGED <<request, agent_repo, repo_info, hostCalls>>

\* create_issue after the rebinding: issue_agent.create_issue(title, body) is
\* not awaited, so issue is a coroutine object and issue.title raises
CreateIssueHandler(r) ==
  /\ hpc[r] = "bound"
  /\ request[r].endpoint = "create_issue"
  /\ Finish(r, HandlerError("AttributeError", 500, "AttributeError"))
  /\ UNCHANGED <<request, agent_repo, repo_info, handlerAnalysis, hostCalls, modelCalls>>

\* PRReviewAgent.analyze_pr: self.repo.pull_request(pr_number), then the prompt
\* built from the pull request and self.analyze
AnalyzePr(r) ==
  /\ hpc[r] = "bound"
  /\ request[r].endpoint \in {"review_pr", "create_review"}
  /\ \E ok \in BOOLEAN :
       /\ hostCalls' = Append(hostCalls, HostCall(r, "pull_request", agent_repo["pr_agent"], ok))
       /\ IF ~ok
          THEN /\ Finish(r, HandlerError("GitHubError", 500, "GitHubError"))
               /\ UNCHANGED <<handlerAnalysis, modelCalls>>
          ELSE \E out \in ModelOutcomes :
                 /\ modelCalls' = Append(modelCalls,
                                         ModelCall(r, agent_repo["pr_agent"], out))
                 /\ IF out.returned.exc # "none"
                    THEN /\ Finish(r, HandlerError(out.returned.exc, 500,
                                                   out.returned.exc))
                         /\ UNCHANGED handlerAnalysis
                    ELSE /\ handlerAnalysis' =
                              [handlerAnalysis EXCEPT ![r] = out.returned.val]
                         /\ hpc' = [hpc EXCEPT ![r] = "analysed"]
                         /\ UNCHANGED <<running, answers>>
  /\ UNCHANGED <<request, agent_repo, repo_info>>

\* review_pr returns AnalysisResponse(status="success", suggestions=review,
\* issues_created=0)
ReviewPrRespond(r) ==
  /\ hpc[r] = "analysed"
  /\ request[r].endpoint = "review_pr"
  /\ IF ~Validates(handlerAnalysis[r])
     THEN Finish(r, HandlerError("ValidationError", 500, "ValidationError"))
     ELSE Finish(r, Answer(200, "success", handlerAnalysis[r],
                           IssuesCreated(request[r].endpoint, handlerAnalysis[r])))
  /\ UNCHANGED <<request, agent_repo, repo_info, handlerAnalysis, hostCalls, modelCalls>>

\* PRReviewAgent.create_review after analyze_pr: the pull request is fetched
\* again, the four categories are subscripted, pr.create_review is called
CreateReview(r) ==
  /\ hpc[r] = "analysed"
  /\ request[r].endpoint = "create_review"
  /\ \E ok \in BOOLEAN :
       LET fetch == HostCall(r, "pull_request", agent_repo["pr_agent"], ok)
           sections == ReviewSections(handlerAnalysis[r], 1)
       IN  IF ~ok
           THEN /\ hostCalls' = Append(hostCalls, fetch)
                /\ Finish(r, HandlerError("GitHubError", 500, "GitHubError"))
           ELSE IF sections.exc # "none"
           THEN /\ hostCalls' = Append(hostCalls, fetch)
                /\ Finish(r, HandlerError(sections.exc, 500, sections.exc))
           ELSE \E posted \in BOOLEAN :
                  /\ hostCalls' = hostCalls \o
                       <<fetch, HostCall(r, "create_review", agent_repo["pr_agent"], posted)>>
                  /\ IF posted
                     THEN Finish(r, Answer(200, "review", PyList(sections.val), 0))
                     ELSE Finish(r, HandlerError("GitHubError", 500, "GitHubError"))
  /\ UNCHANGED <<request, agent_repo, repo_info, handlerAnalysis, modelCalls>>

ApiNext ==
  \/ \E r \in Requests : Receive(r) /\ UNCHANGED <<parseVars, callVars, fileVars>>
  \/ \E r \in Requests : Validate(r) /\ UNCHANGED <<parseVars, callVars, fileVars>>
  \/ \E r \in Requests : Rebind(r) /\ UNCHANGED <<parseVars, callVars, fileVars>>
  \/ \E r \in Requests : AnalyzeHandler(r) /\ UNCHANGED <<parseVars, callVars, fileVars>>
  \/ \E r \in Requests : CreateIssueHandler(r) /\ UNCHANGED <<parseVars, callVars, fileVars>>
  \/ \E r \in Requests : AnalyzePr(r) /\ UNCHANGED <<parseVars, callVars, fileVars>>
  \/ \E r \in Requests : ReviewPrRespond(r) /\ UNCHANGED <<parseVars, callVars, fileVars>>
  \/ \E r \in Requests : CreateReview(r) /\ UNCHANGED <<parseVars, callVars, fileVars>>

ApiSpec == ApiInit /\ [][ApiNext]_vars

\* ------------------------------------------------------------------ properties
Returned == pc = "done"
Structured == loads(raw).ok
JsonObject == loads(raw).ok /\ loads(raw).val.t = "dict"
StrippedLines == [i \in 1..Len(split(raw, "\n")) |-> strip(split(raw, "\n")[i])]

IsStringArray(x) == x.t = "list" /\ \A i \in 1..Len(x.v) : x.v[i].t = "str"
IsRecordArray(x) ==
  x.t = "list" /\ \A i \in 1..Len(x.v) : x.v[i].t = "dict" /\ DictHas(x.v[i], K_suggestion)
NonEmpty(x) == x.v # <<>>
SuggestionsOf(x) == PyList([i \in 1..Len(x.v) |-> DictGet(x.v[i], K_suggestion)])
CategoryOf(k) == KeyTable[CHOOSE n \in 1..Len(KeyTable) : KeyTable[n][1] = k][2]
RECURSIVE EntriesUpTo(_, _)
EntriesUpTo(d, n) == IF n = 0 THEN 0 ELSE Len(d.v[n][2].v) + EntriesUpTo(d, n - 1)
TotalEntries(d) == EntriesUpTo(d, Len(d.v))

\* C1: both parsers always return a mapping, no exception leaves them, and a
\* caught internal failure makes the returned mapping empty.
C1_ParsersReturnMapping ==
  Returned => /\ raised = "none"
              /\ result.t = "dict"
              /\ (caught # "none" => result = EmptyDict)
\* suggestions were already collected when a later key raised
C1_Witness ==
  /\ Returned /\ caught = "TypeError"
  /\ suggestions.t = "dict" /\ suggestions # EmptyDict
  /\ result = EmptyDict

\* C2: a JSON object holding an array of plain strings under a known key is
\* returned with that exact sequence under that key.
C2_StringArrayKept ==
  (Returned /\ JsonObject) =>
    \A k \in KnownKeys :
      ( /\ DictHas(loads(raw).val, k)
        /\ IsStringArray(DictGet(loads(raw).val, k))
        /\ NonEmpty(DictGet(loads(raw).val, k)) )
        => /\ result.t = "dict" /\ DictHas(result, k)
           /\ DictGet(result, k) = DictGet(loads(raw).val, k)

\* C3: a JSON object holding an array of records with a suggestion field under
\* a known key is returned with the projected suggestion values under that key.
C3_RecordArrayProjected ==
  (Returned /\ parser = "_parse_analysis" /\ JsonObject) =>
    \A k \in KnownKeys :
      ( /\ DictHas(loads(raw).val, k)
        /\ IsRecordArray(DictGet(loads(raw).val, k))
        /\ NonEmpty(DictGet(loads(raw).val, k)) )
        => /\ result.t = "dict" /\ DictHas(result, k)
           /\ DictGet(result, k) = SuggestionsOf(DictGet(loads(raw).val, k))

\* the category selected by the last ordinal line before line i, if any
MarkerBefore(ls, i) == {m \in 1..(i - 1) : IsOrdinal(ls[m])}
LastMarker(ls, i) == CHOOSE m \in MarkerBefore(ls, i) : \A n \in MarkerBefore(ls, i) : n <= m
Grouped(ls, cat) ==
  {i \in 1..Len(ls) : /\ ls[i] # <<>> /\ ~IsOrdinal(ls[i])
                      /\ MarkerBefore(ls, i) # {}
                      /\ OrdinalCategory(ls[LastMarker(ls, i)]) = cat}
Ascending(S) ==
  [n \in 1..Cardinality(S) |-> CHOOSE i \in S : Cardinality({j \in S : j < i}) = n - 1]
OrdinalCategories == {OrdinalTable[n][2] : n \in 1..Len(OrdinalTable)}

\* C4: for non-JSON input every non-blank line between an ordinal marker and
\* the next marker is appended, in input order, to the marker's category;
\* blank lines are skipped and do not change the current category.
C4_LinesGroupedUnderMarker ==
  (Returned /\ parser = "_parse_analysis" /\ ~Structured) =>
    /\ DictKeys(result) = {c \in OrdinalCategories : Grouped(StrippedLines, c) # {}}
    /\ \A c \in DictKeys(result) :
         DictGet(result, c) =
           PyList([n \in 1..Cardinality(Grouped(StrippedLines, c)) |->
                     PyStr(StrippedLines[Ascending(Grouped(StrippedLines, c))[n]])])
\* a blank line between the marker and the line appended to its category
C4_Witness ==
  /\ Returned /\ parser = "_parse_analysis"
  /\ lines = <<L_One, L_Blank, L_Padded>>
  /\ result = PyDict(<< <<K_code_improvements, PyList(<<PyStr(<<"b">>)>>)>> >>)

\* C5 as stated: the text on the marker's own line is the first suggestion.
C5_MarkerTextKept ==
  (Returned /\ parser = "_parse_analysis" /\ raw = ExampleText) =>
    result = PyDict(<< <<K_code_improvements,
                         PyList(<<PyStr(S_AddTests), PyStr(S_ForEdgeCases)>>)>>,
                       <<K_documentation, PyList(<<PyStr(S_ImproveDocs)>>)>> >>)
\* C5 amended: an ordinal line only switches the category and its own text is
\* discarded, so the result holds one entry per non-blank, non-ordinal line that
\* follows an ordinal line; the example yields the first category mapped to
\* ["for edge cases"] and no second category.
C5_MarkerTextDiscarded ==
  (Returned /\ parser = "_parse_analysis" /\ ~Structured) =>
    /\ TotalEntries(result) =
         Cardinality({i \in 1..Len(StrippedLines) :
                        /\ StrippedLines[i] # <<>> /\ ~IsOrdinal(StrippedLines[i])
                        /\ MarkerBefore(StrippedLines, i) # {}})
    /\ raw = ExampleText =>
         result = PyDict(<< <<K_code_improvements, PyList(<<PyStr(S_ForEdgeCases)>>)>> >>)
C5_Witness ==
  /\ Returned /\ parser = "_parse_analysis" /\ raw = ExampleText
  /\ ~DictHas(result, K_documentation)

\* a leading ordinal that is none of the four known ones
BeyondKnownOrdinal(line) ==
  /\ ScanDigits(line, 1) > 1
  /\ ScanDigits(line, 1) <= Len(line) /\ line[ScanDigits(line, 1)] = "."
  /\ ~IsOrdinal(line)

\* C6: a line whose leading ordinal is beyond the known set is appended to no
\* category.
C6_UnknownOrdinalNotAppended ==
  (Returned /\ parser = "_parse_analysis" /\ ~Structured) =>
    \A n \in 1..Len(result.v) : \A i \in 1..Len(result.v[n][2].v) :
      ~BeyondKnownOrdinal(result.v[n][2].v[i].v)

\* C7: a known key of neither supported shape is skipped, and a well-formed
\* known key next to it is still returned.
C7_MalformedKeySkipped ==
  (Returned /\ parser = "_parse_analysis" /\ JsonObject) =>
    \A k \in KnownKeys, bad \in KnownKeys :
      ( /\ DictHas(loads(raw).val, k) /\ IsRecordArray(DictGet(loads(raw).val, k))
        /\ NonEmpty(DictGet(loads(raw).val, k))
        /\ DictHas(loads(raw).val, bad)
        /\ ~IsRecordArray(DictGet(loads(raw).val, bad))
        /\ ~IsStringArray(DictGet(loads(raw).val, bad)) )
        => /\ caught = "none"
           /\ DictHas(result, CategoryOf(k))
           /\ DictGet(result, CategoryOf(k)) = SuggestionsOf(DictGet(loads(raw).val, k))

\* the marker convention of each parser
IsMarker(line) ==
  IF parser = "_parse_analysis" THEN IsOrdinal(line) ELSE endswith(line, <<":">>)

\* C8: the empty string, and non-JSON input without any marker line, yield the
\* empty mapping.
C8_NoMarkerEmptyMapping ==
  ( /\ Returned
    /\ \/ raw = <<>>
       \/ ~Structured /\ \A i \in 1..Len(StrippedLines) : ~IsMarker(StrippedLines[i]) )
    => result = EmptyDict
\* text with lines, one of them an ordinal beyond the known set, but no marker
C8_Witness ==
  /\ Returned /\ parser = "_parse_analysis"
  /\ lines = <<L_Plain, L_Five, L_Padded>>
  /\ result = EmptyDict

Attempted == {attempts[n].pos : n \in 1..Len(attempts)}
Filed == fpc = "done"

\* C9: when the hosting service fails the creation for suggestion k, each of
\* the three filing loops still attempts the creation for every other suggestion.
C9_FanOutIsolation ==
  Filed => \A bad \in rejects :
             \A other \in (1..Len(Pairs(analysis))) \ {bad} : other \in Attempted

\* the count the operation returns
ReturnedCount == IF loop = "analyze_issues" THEN response.issues_created ELSE Len(created_issues)

\* C10: the returned created count is the number of suggestions whose creation
\* succeeded on the hosting service, and the full map is returned.
C10_CountIsSuccesses ==
  (Filed /\ loop \in {"analyze_issues", "create_issues"}) =>
    /\ ReturnedCount = Len(hostIssues)
    /\ loop = "analyze_issues" => response.suggestions = analysis

\* ------------------------------------------------ properties of the handlers
Done(r) == hpc[r] = "done"
HostFailed(r) == \E i \in 1..Len(hostCalls) : hostCalls[i].by = r /\ ~hostCalls[i].ok
ModelFailed(r) == \E i \in 1..Len(modelCalls) : modelCalls[i].by = r /\ modelCalls[i].raised
HostCallsOf(r, ops) == {i \in 1..Len(hostCalls) : hostCalls[i].by = r /\ hostCalls[i].op \in ops}
ModelCallsOf(r) == {i \in 1..Len(modelCalls) : modelCalls[i].by = r}

\* the fields an endpoint requires: owner and repo everywhere, pr_number for the
\* review endpoints, title and body for /api/create/issue
RequiredFields(endpoint) ==
  {"owner", "repo"}
    \cup (IF endpoint \in {"review_pr", "create_review"} THEN {"pr_number"} ELSE {})
    \cup (IF endpoint = "create_issue" THEN {"title", "body"} ELSE {})
LacksRequiredField(r) ==
  \E f \in RequiredFields(request[r].endpoint) : request[r].repo_data[f] = ""

\* C11: a request that lacks a required field is answered with status 400.
C11_MissingFieldIs400 ==
  \A r \in Requests : Done(r) /\ LacksRequiredField(r) => answers[r].status_code = 400

AnalysisEndpoints == {"analyze_issues", "analyze_code", "analyze_tests", "review_pr"}

\* C12: an analysis request during which the model client or the hosting client
\* raised ends in a 500 answer that carries the underlying message, and the
\* failed call was made once.
C12_ExternalFailureIsServerError ==
  \A r \in Requests :
    Done(r) /\ request[r].endpoint \in AnalysisEndpoints /\ (HostFailed(r) \/ ModelFailed(r))
      => /\ answers[r].status_code = 500
         /\ answers[r].detail \in {"GitHubError", "ModelError"}
         /\ Cardinality(ModelCallsOf(r)) <= 1
         /\ Cardinality(HostCallsOf(r, {"repository"})) <= 1
         /\ Cardinality(HostCallsOf(r, {"pull_request"})) <= 1

LacksCategory(x) ==
  x.t = "dict" /\ \E n \in 1..Len(ReviewKeys) : ~DictHas(x, ReviewKeys[n])

\* C13: with the hosting service healthy, a handler whose analysis came back
\* empty or without some category still answers 200, and an empty analysis files
\* no issue.
C13_MissingCategoryIsNothingToDo ==
  \A r \in Requests :
    Done(r) /\ handlerAnalysis[r] # Unset /\ LacksCategory(handlerAnalysis[r]) /\ ~HostFailed(r)
      => /\ answers[r].status_code = 200
         /\ handlerAnalysis[r] = EmptyDict => answers[r].issues_created = 0

\* every pull_request and create_review call of a request is made on the
\* repository that request bound
UsesOwnBinding ==
  \A i \in 1..Len(hostCalls) :
    hostCalls[i].op \in {"pull_request", "create_review"}
      => hostCalls[i].on = Target(hostCalls[i].by)

\* C15: every prompt sent to the model carries the metadata of the repository
\* the request bound the agent to.
C15_PromptFromBoundRepository ==
  \A i \in 1..Len(modelCalls) : modelCalls[i].about = Target(modelCalls[i].by)

AnalysisOnly == {"analyze_code", "analyze_tests", "review_pr"}

\* C16: a request to /api/analyze/code, /api/analyze/tests or /api/review/pr
\* makes no create_issue or create_review call on the hosting service, and its
\* success answer reports issues_created = 0.
C16_AnalysisOnlyNeverMutates ==
  \A r \in Requests :
    request[r].endpoint \in AnalysisOnly
      => /\ HostCallsOf(r, {"create_issue", "create_review"}) = {}
         /\ Done(r) /\ answers[r].status_code = 200 => answers[r].issues_created = 0
C16_Witness ==
  \E r \in Requests :
    /\ request[r].endpoint = "review_pr" /\ Done(r)
    /\ answers[r].status_code = 200 /\ answers[r].suggestions = FullReview
    /\ HostCallsOf(r, {"pull_request"}) # {}

\* C18: a request to /api/create/issue with every field present and the hosting
\* service healthy makes exactly one create_issue call and is answered 200.
C18_ValidCreateIssueFilesOne ==
  \A r \in Requests :
    Done(r) /\ request[r].endpoint = "create_issue" /\ ~LacksRequiredField(r) /\ ~HostFailed(r)
      => /\ answers[r].status_code = 200
         /\ Cardinality(HostCallsOf(r, {"create_issue"})) = 1

\* C20: a step of a request that lacks a required field makes no hosting call
\* and no model call and leaves every agent's repo and repo_info as they were.
C20_RejectionTouchesNothing ==
  [][\A r \in Requests :
       LacksRequiredField(r) /\ hpc'[r] # hpc[r]
         => UNCHANGED <<agent_repo, repo_info, hostCalls, modelCalls>>]_vars
C20_Witness ==
  \E r \in Requests : \E q \in Requests \ {r} :
    /\ Done(r) /\ LacksRequiredField(r) /\ answers[r] # Unset
    /\ HostCallsOf(r, {"repository", "pull_request", "create_issue", "create_review"}) = {}
    /\ ModelCallsOf(r) = {}
    /\ AgentOf(request[q].endpoint) = AgentOf(request[r].endpoint)
    /\ agent_repo[AgentOf(request[r].endpoint)] = Target(q)
    /\ Target(q) # DefaultRepo

\* ------------------------------------------- properties of repeated parsing
\* C17: a second call of a parser on the same text returns what the first call
\* returned, whatever the first call left behind.
C17_SecondCallAgrees ==
  calls = 2 /\ Returned => raised = "none" /\ result = first
C17_Witness ==
  /\ calls = 2 /\ Returned /\ parser = "_parse_analysis"
  /\ ~Structured /\ result = first /\ result # EmptyDict

\* none of the four keys of the structured tier is found in the decoded value
NoKnownKey ==
  \A n \in 1..Len(KeyTable) :
    LET found == Contains(loads(raw).val, KeyTable[n][1])
    IN  found.exc = "none" => ~found.val

\* C19: _parse_analysis scans lines only after json.loads raised; a text that
\* decodes as JSON and holds none of the known keys returns the empty mapping
\* without being scanned.
C19_ScanOnlyAfterDecodeError ==
  parser = "_parse_analysis"
    => /\ pc = "scan" \/ lines # <<>> => ~Structured
       /\ Returned /\ Structured /\ NoKnownKey => result = EmptyDict /\ lines = <<>>
C19_Witness ==
  /\ parser = "_parse_analysis" /\ Returned
  /\ raw = T_JsonLines /\ Structured /\ NoKnownKey
  /\ \E i \in 1..Len(StrippedLines) : IsOrdinal(StrippedLines[i])
  /\ result = EmptyDict /\ lines = <<>>

\* ---------------------------------------- properties of the line-by-line scan
\* a step of either scan loop, and the stripped line it processes
ScanStep == pc = "scan" /\ idx <= Len(lines) /\ idx' = idx + 1
ScannedLine == strip(lines[idx])
IsLabel(line) == endswith(line, <<":">>)
LabelCategory(line) == replace(lower(SubSeq(line, 1, Len(line) - 1)), " ", "_")

\* C21: in each parser's scan, a line that begins with an ordinal 1. to 4.
\* selects a category (in _parse_analysis the one at that position), and any
\* other line that ends in a colon selects the category named by the line,
\* lower-cased with spaces replaced by underscores.
C21_BothMarkerConventions ==
  [][ScanStep =>
       /\ IsOrdinal(ScannedLine) =>
            /\ Truthy(current_category')
            /\ parser = "_parse_analysis" =>
                 current_category' = PyStr(OrdinalCategory(ScannedLine))
       /\ IsLabel(ScannedLine) /\ ~IsOrdinal(ScannedLine) =>
            current_category' = PyStr(LabelCategory(ScannedLine))]_vars

\* the parser has returned what its scan loop collected
ScanResult ==
  /\ Returned /\ caught = "none" /\ raised = "none"
  /\ parser = "_parse_analysis" => ~Structured
  /\ parser = "_parse_response" => ~startswith(raw, <<"{">>)

\* C22: in a scan result every entry is one of the text's lines with its
\* surrounding whitespace trimmed, and no key maps to an empty sequence.
C22_EntriesVerbatimNoEmptyKey ==
  ScanResult =>
    \A n \in 1..Len(result.v) :
      /\ NonEmpty(result.v[n][2])
      /\ \A i \in 1..Len(result.v[n][2].v) :
           \E j \in 1..Len(StrippedLines) : result.v[n][2].v[i].v = StrippedLines[j]

\* xs is an initial part of ys
IsPrefix(xs, ys) == Len(xs) <= Len(ys) /\ SubSeq(ys, 1, Len(xs)) = xs

\* C23: a step of either scan loop keeps every key collected so far, and the
\* entries a key had before the step are the first entries it has after it.
C23_ScanOnlyGrows ==
  [][ScanStep =>
       \A n \in 1..Len(suggestions.v) :
         /\ DictHas(suggestions', suggestions.v[n][1])
         /\ IsPrefix(suggestions.v[n][2].v, DictGet(suggestions', suggestions.v[n][1]).v)]_vars

\* the line begins with one of the four ordinals, whatever follows
BeginsWithOrdinal(line) ==
  Len(line) >= 2 /\ line[1] \in {"1", "2", "3", "4"} /\ line[2] = "."
PositionCategory(line) ==
  CASE line[1] = "1" -> K_code_improvements
    [] line[1] = "2" -> K_documentation
    [] line[1] = "3" -> K_testing
    [] line[1] = "4" -> K_performance
\* the trimmed lines the scan loop has processed so far
ScannedSoFar ==
  [i \in 1..(IF pc = "scan" THEN idx - 1 ELSE Len(lines)) |-> strip(lines[i])]
MarkersSoFar == {i \in 1..Len(ScannedSoFar) : BeginsWithOrdinal(ScannedSoFar[i])}

\* C24: throughout the scan of _parse_analysis no collected suggestion begins
\* with 1., 2., 3. or 4.; until a line with such a prefix has been processed
\* nothing is collected; afterwards the current category is the one at the
\* position of the last such line; and the scan returns what it collected.
C24_OrdinalIsPrefixTest ==
  parser = "_parse_analysis" /\ pc \in {"scan", "done"} /\ lines # <<>> =>
    /\ \A n \in 1..Len(suggestions.v) : \A i \in 1..Len(suggestions.v[n][2].v) :
         ~BeginsWithOrdinal(suggestions.v[n][2].v[i].v)
    /\ MarkersSoFar = {} => current_category = PyNone /\ suggestions = EmptyDict
    /\ MarkersSoFar # {} =>
         current_category =
           PyStr(PositionCategory(
             ScannedSoFar[CHOOSE m \in MarkersSoFar : \A k \in MarkersSoFar : k <= m]))
    /\ Returned => result = suggestions
\* a line before the first marker is dropped, 1.5x is the marker, and the line
\* after it is collected
C24_Witness ==
  /\ Returned /\ parser = "_parse_analysis"
  /\ lines = <<L_Plain, L_Prefix, L_Padded>>
  /\ result = PyDict(<< <<K_code_improvements, PyList(<<PyStr(<<"b">>)>>)>> >>)

====
